---- MODULE Spec2Model ----
(***************************************************************************)
(* Model of mbf-site/src/Agent.ts: the control side of the agent protocol. *)
(*                                                                         *)
(*   SpecSession    one call of sendRequest: spawn the agent, write the    *)
(*                  request, frame and demultiplex stdout until the exit   *)
(*                  or disconnect flag is seen, interpret the exit code.   *)
(*   SpecProvision  one call of prepareAgent: hash check, and when stale   *)
(*                  overwriteAgent / saveAgent / downloadAgent.            *)
(*   SpecOps        one call of an exported operation, from its entry to   *)
(*                  the spawn of the agent.                                *)
(*   SpecDemux      the demultiplexing of decoded messages, over all log   *)
(*                  levels.                                                *)
(*   SpecTwin       one call run twice, with and without an observer.      *)
(*                                                                         *)
(* Text is a sequence of one-character tokens; NL is the newline.  The     *)
(* agent, the device and the network are the environment: their steps are  *)
(* nondeterministic and unordered with respect to the program's awaits.    *)
(***************************************************************************)
EXTENDS Integers, Sequences, FiniteSets, TLC

VARIABLES
    pc,           \* where the running async function is suspended
    result,       \* how the call ended: none / return / throw
    eventSink,    \* the LogEventSink argument: "null" or "sink"
    sinkCalls,    \* the events the sink was called with, in order
    op,           \* the exported operation being run, "none" for a bare call
    \* ---- sendRequest
    sent,         \* frames the agent has written to stdout so far
    rd,           \* characters of stdout already handed out by reader.read()
    buffer,       \* let buffer
    response,     \* let response
    parsed,       \* the strings handed to JSON.parse, in order
    exited,       \* let exited
    exitCode,     \* agentProcess.exit: -1 while pending, else the code
    stdoutClosed, \* the stdout stream has ended
    stdinWrites,  \* what was written to the agent's stdin
    stdinLock,    \* "none", "held" or "released"
    \* ---- prepareAgent
    agentSha1,    \* AGENT_SHA1
    hexUpper,     \* whether the device's sha1sum prints upper-case digits
    deviceFile,   \* the file at AgentPath: its content and executable bit
    deviceFile0,  \* that file when prepareAgent was called
    sha1Out,      \* stdout of the sha1sum command
    existingUpToDate,
    issued,       \* remote commands, transfers and writes started, in order
    logged,       \* console.log of logInfo, in order
    attempt,      \* let attempt of downloadAgent
    xhrs,         \* how each finished transfer ended: "fail" or the payload
    agent,        \* const agent of saveAgent
    upload,       \* sync.write: "idle", "inflight", "done" or "failed"
    timer,        \* the setTimeout of saveAgent: "idle", "armed" or "fired"
    sync,         \* the AdbSync handle: "none", "open" or "disposed"
    cmdFailed,    \* the remote commands that ran and exited non-zero
    \* ---- downloadAgent, while a transfer is open
    now,          \* new Date().getTime(), counted from the opening of the transfer
    lastReadTime, \* let lastReadTime
    progressTimes,   \* the times at which progress was reported, in order
    ticks,           \* progress events delivered so far
    lengthComputable, \* event.lengthComputable of the last progress event
    \* ---- the same call run with the other observer, step for step
    phase,        \* "off", or whose step is due: "lead" or "follow"
    before,       \* the state the leading run's step was taken from
    after,        \* the state that step led to
    otherCalls    \* sinkCalls of the run that is not loaded

sessVars == <<sent, rd, buffer, response, parsed, exited, exitCode, stdoutClosed,
              stdinWrites, stdinLock>>

provVars == <<agentSha1, hexUpper, deviceFile, deviceFile0, sha1Out,
              existingUpToDate, issued, logged, attempt, xhrs, agent, upload,
              timer, sync, cmdFailed, now, lastReadTime, progressTimes, ticks,
              lengthComputable>>

xhrVars == <<now, lastReadTime, progressTimes, ticks, lengthComputable>>

twinVars == <<phase, before, after, otherCalls>>

vars == <<pc, result, eventSink, sinkCalls, op, twinVars, sessVars, provVars, twinVars>>

----------------------------------------------------------------------------
(* Bounds *)

\* frames the agent writes in one session
MaxFrames == 3

\* progress events delivered during one transfer
MaxTicks == 3

----------------------------------------------------------------------------
(* Text and messages *)

NL == "\n"
\* the backquote character of line 247
BackTick == "bq"

RECURSIVE Flatten(_)
\* the stdout text: every frame followed by one newline
Flatten(frames) ==
    IF frames = <<>> THEN <<>>
    ELSE Head(frames) \o <<NL>> \o Flatten(Tail(frames))

RECURSIVE Split(_)
\* String.prototype.split("\n"): the segments between newlines, never empty
\* (the remainder is bound as a value before it is split in turn)
Split(s) ==
    IF \A i \in 1..Len(s) : s[i] # NL THEN <<s>>
    ELSE LET i == CHOOSE j \in 1..Len(s) :
                      s[j] = NL /\ \A k \in 1..(j - 1) : s[k] # NL
         IN <<SubSeq(s, 1, i - 1)>>
            \o (CHOOSE r \in {Split(rest) : rest \in {SubSeq(s, i + 1, Len(s))}} :
                    TRUE)

Front(s) == SubSeq(s, 1, Len(s) - 1)
Last(s) == s[Len(s)]

Null == [type |-> "null", level |-> "", body |-> ""]

Levels == {"Trace", "Debug", "Info", "Warn", "Error"}
\* the levels the modelled agent logs at
AgentLevels == {"Info", "Error"}
Bodies == {"1", "2"}

LevelChar(l) ==
    CASE l = "Trace" -> "t" [] l = "Debug" -> "d" [] l = "Info" -> "i"
      [] l = "Warn" -> "w" [] l = "Error" -> "e"

LogMsg(l, m) == [type |-> "LogMsg", level |-> l, body |-> m]
ModStatus(p) == [type |-> "ModStatus", level |-> "", body |-> p]

\* the wire form of a message, without its newline
Encode(msg) ==
    IF msg.type = "LogMsg" THEN <<LevelChar(msg.level), msg.body>>
    ELSE <<"r", msg.body>>

\* whether JSON.parse accepts the text
ValidJson(f) ==
    /\ Len(f) = 2
    /\ f[1] \in {LevelChar(l) : l \in Levels} \cup {"r"}
    /\ f[2] \in Bodies

\* JSON.parse of a text it accepts
JsonParse(f) ==
    IF f[1] = "r" THEN ModStatus(f[2])
    ELSE LogMsg(CHOOSE l \in Levels : LevelChar(l) = f[1], f[2])

\* a line that is not JSON
BadFrame == <<"{">>

AgentMessages ==
    {LogMsg(l, m) : l \in AgentLevels, m \in Bodies} \cup {ModStatus(p) : p \in Bodies}

AgentFrames == {Encode(m) : m \in AgentMessages} \cup {BadFrame}

\* what a failing agent leaves on stderr, as the chunks the stream yields
AgentStderr == <<"x", "y">>

RECURSIVE ConcatStringStream(_)
ConcatStringStream(chunks) ==
    IF chunks = <<>> THEN <<>>
    ELSE <<Head(chunks)>> \o ConcatStringStream(Tail(chunks))

Return(v) == [kind |-> "return", value |-> v, text |-> <<>>]
Throw(t) == [kind |-> "throw", value |-> Null, text |-> t]
NoResult == [kind |-> "none", value |-> Null, text |-> <<>>]

----------------------------------------------------------------------------
(* sendRequest: framing and demultiplexing of one chunk *)

\* Demux with the response written at most once (first value wins)
DemuxLatchOnce(st, msg) ==
    IF msg.type = "LogMsg"
    THEN [st EXCEPT
            !.calls = IF eventSink # "null" THEN Append(@, msg) ELSE @,
            !.response = IF msg.level = "Error" /\ @ = Null THEN msg ELSE @]
    ELSE [st EXCEPT !.response = IF @ = Null THEN msg ELSE @]

\* Demux with every log latched, whatever its level
DemuxLatchesAnyLog(st, msg) ==
    IF msg.type = "LogMsg"
    THEN [st EXCEPT
            !.calls = IF eventSink # "null" THEN Append(@, msg) ELSE @,
            !.response = msg]
    ELSE [st EXCEPT !.response = msg]

\* Demux with an error log latched only when an observer is told of it
DemuxLatchesWhenObserved(st, msg) ==
    IF msg.type = "LogMsg"
    THEN [st EXCEPT
            !.calls = IF eventSink # "null" THEN Append(@, msg) ELSE @,
            !.response = IF msg.level = "Error" /\ eventSink # "null"
                         THEN msg ELSE @]
    ELSE [st EXCEPT !.response = msg]

\* lines 222-237: one decoded message against the latched response and sink
Demux(st, msg) ==
    IF msg.type = "LogMsg"
    THEN [st EXCEPT
            !.calls = IF eventSink # "null" THEN Append(@, msg) ELSE @,
            !.response = IF msg.level = "Error" THEN msg ELSE @]
    ELSE [st EXCEPT !.response = msg]

RECURSIVE FramesThrowsLate(_, _)
\* Frames with the exception raised only after the rest of the chunk was processed
FramesThrowsLate(st, messages) ==
    IF messages = <<>> THEN st
    ELSE LET f == Head(messages)
             st1 == [st EXCEPT !.parsed = Append(@, f)]
         IN IF ~ValidJson(f)
            THEN FramesThrowsLate([st1 EXCEPT !.thrown = TRUE,
                                              !.bad = IF st.thrown THEN @ ELSE f],
                                  Tail(messages))
            ELSE FramesThrowsLate(Demux(st1, JsonParse(f)), Tail(messages))

RECURSIVE Frames(_, _)
\* lines 214-238: the for loop over the complete lines of one chunk
\* (the state after one message is bound as a value before the next iteration)
Frames(st, messages) ==
    IF messages = <<>> \/ st.thrown THEN st
    ELSE LET f == Head(messages)
             st1 == [st EXCEPT !.parsed = Append(@, f)]
         IN IF ~ValidJson(f)
            THEN [st1 EXCEPT !.thrown = TRUE, !.bad = f]
            ELSE CHOOSE r \in {Frames(st2, rest) :
                                st2 \in {Demux(st1, JsonParse(f))},
                                rest \in {Tail(messages)}} : TRUE

\* NewBuffer with the partial line dropped instead of kept for the next read
NewBufferDropsPartial(buf, receivedStr) == <<>>

\* lines 210-212
NewBuffer(buf, receivedStr) == Last(Split(buf \o receivedStr))

\* lines 210-238: the loop body for one chunk that carries data
OnChunk(receivedStr) ==
    LET messages == Split(buffer \o receivedStr)
        st == Frames([response |-> response, calls |-> sinkCalls,
                      parsed |-> parsed, thrown |-> FALSE, bad |-> <<>>],
                     Front(messages))
    IN /\ buffer' = NewBuffer(buffer, receivedStr)
       /\ response' = st.response
       /\ sinkCalls' = st.calls
       /\ parsed' = st.parsed
       /\ IF st.thrown
          THEN /\ pc' = "done"
               /\ result' = Throw(<<"Agent message ">> \o st.bad \o <<" was not valid JSON">>)
          ELSE /\ pc' = "loop"
               /\ UNCHANGED result

----------------------------------------------------------------------------
(* sendRequest: the program's steps *)

\* line 179
Spawn ==
    /\ pc = "spawn"
    /\ \/ /\ pc' = "send"
          /\ UNCHANGED result
       \/ /\ pc' = "done"
          /\ result' = Throw(<<"spawn failed">>)
    /\ UNCHANGED <<eventSink, sinkCalls, sent, rd, buffer, response, parsed,
                   exited, exitCode, stdoutClosed, stdinWrites, stdinLock>>
    /\ UNCHANGED <<op, twinVars, provVars>>

\* Send with releaseLock after the write instead of in a finally
SendNoFinally ==
    /\ pc = "send"
    /\ \/ /\ stdinWrites' = Append(stdinWrites, <<"GetModStatus", NL>>)
          /\ stdinLock' = "released"
          /\ pc' = "read"
          /\ exited' = (exitCode >= 0)
          /\ UNCHANGED result
       \/ /\ UNCHANGED <<stdinWrites, exited>>
          /\ stdinLock' = "held"
          /\ pc' = "done"
          /\ result' = Throw(<<"stdin write failed">>)
    /\ UNCHANGED <<eventSink, sinkCalls, sent, rd, buffer, response, parsed,
                   exitCode, stdoutClosed>>
    /\ UNCHANGED <<op, twinVars, provVars>>

\* lines 181-202: the synchronous stretch from the stdin write to the first
\* reader.read().  The callbacks of lines 189-190 cannot run inside it, so the
\* first test of line 201 reads false and a read is always issued; a process
\* that has exited already has its callback run right after.
Send ==
    /\ pc = "send"
    /\ stdinLock' = "released"
    /\ \/ /\ stdinWrites' = Append(stdinWrites, <<"GetModStatus", NL>>)
          /\ pc' = "read"
          /\ exited' = (exitCode >= 0)
          /\ UNCHANGED result
       \/ /\ UNCHANGED <<stdinWrites, exited>>
          /\ pc' = "done"
          /\ result' = Throw(<<"stdin write failed">>)
    /\ UNCHANGED <<eventSink, sinkCalls, sent, rd, buffer, response, parsed,
                   exitCode, stdoutClosed>>
    /\ UNCHANGED <<op, twinVars, provVars>>

\* LoopCheck with the flag not tested (while(true))
LoopCheckIgnoresFlag ==
    /\ pc = "loop"
    /\ pc' = "read"
    /\ UNCHANGED <<result, eventSink, sinkCalls, sent, rd, buffer, response, parsed,
                   exited, exitCode, stdoutClosed, stdinWrites, stdinLock>>
    /\ UNCHANGED <<op, twinVars, provVars>>

\* line 201 and the call of line 202, on every later iteration
LoopCheck ==
    /\ pc = "loop"
    /\ IF exited
       THEN pc' = "awaitExit"
       ELSE pc' = "read"
    /\ UNCHANGED <<result, eventSink, sinkCalls, sent, rd, buffer, response, parsed,
                   exited, exitCode, stdoutClosed, stdinWrites, stdinLock>>
    /\ UNCHANGED <<op, twinVars, provVars>>

\* lines 202-238: the pending read yields the next chunk of stdout
ReadChunk ==
    /\ pc = "read"
    /\ rd < Len(Flatten(sent))
    /\ \E k \in 0..(Len(Flatten(sent)) - rd) :
          /\ rd' = rd + k
          /\ OnChunk(SubSeq(Flatten(sent), rd + 1, rd + k))
    /\ UNCHANGED <<eventSink, sent, exited, exitCode, stdoutClosed,
                   stdinWrites, stdinLock>>
    /\ UNCHANGED <<op, twinVars, provVars>>

\* lines 202-206: the pending read reports the end of the stream
ReadEnd ==
    /\ pc = "read"
    /\ rd = Len(Flatten(sent))
    /\ stdoutClosed
    /\ pc' = "loop"
    /\ UNCHANGED <<result, eventSink, sinkCalls, sent, rd, buffer, response, parsed,
                   exited, exitCode, stdoutClosed, stdinWrites, stdinLock>>
    /\ UNCHANGED <<op, twinVars, provVars>>

\* Outcome with a missing response returned as null instead of thrown
OutcomeReturnsNull(code, resp, stderrChunks) ==
    IF code = 0
    THEN IF resp # Null /\ resp.type = "LogMsg" THEN Throw(<<BackTick, resp.body, BackTick>>)
         ELSE Return(resp)
    ELSE Throw(<<"Failed to invoke agent: is the executable corrupt?">>
               \o ConcatStringStream(stderrChunks))

\* Outcome with a latched terminal response returned whatever the exit code
OutcomeIgnoresCode(code, resp, stderrChunks) ==
    IF resp # Null /\ resp.type # "LogMsg" THEN Return(resp)
    ELSE IF code = 0
    THEN IF resp = Null THEN Throw(<<"Received error response from agent">>)
         ELSE Throw(<<BackTick, resp.body, BackTick>>)
    ELSE Throw(<<"Failed to invoke agent: is the executable corrupt?">>
               \o ConcatStringStream(stderrChunks))

\* lines 242-258
Outcome(code, resp, stderrChunks) ==
    IF code = 0
    THEN IF resp = Null THEN Throw(<<"Received error response from agent">>)
         ELSE IF resp.type = "LogMsg" THEN Throw(<<BackTick, resp.body, BackTick>>)
         ELSE Return(resp)
    ELSE Throw(<<"Failed to invoke agent: is the executable corrupt?">>
               \o ConcatStringStream(stderrChunks))

\* lines 242-258
Resolve ==
    /\ pc = "awaitExit"
    /\ exitCode >= 0
    /\ result' = Outcome(exitCode, response, AgentStderr)
    /\ pc' = "done"
    /\ UNCHANGED <<eventSink, sinkCalls, sent, rd, buffer, response, parsed,
                   exited, exitCode, stdoutClosed, stdinWrites, stdinLock>>
    /\ UNCHANGED <<op, twinVars, provVars>>

----------------------------------------------------------------------------
(* sendRequest: the environment *)

\* the agent process runs alongside a sendRequest that has spawned it and has
\* not ended; what it does after the call ended is not followed
Spawned == pc \in {"send", "read", "loop", "awaitExit"}

\* the agent prints one more line
AgentWrite ==
    /\ Spawned
    /\ exitCode = -1
    /\ ~exited
    /\ Len(sent) < MaxFrames
    /\ \E f \in AgentFrames : sent' = Append(sent, f)
    /\ UNCHANGED <<pc, result, eventSink, sinkCalls, rd, buffer, response, parsed,
                   exited, exitCode, stdoutClosed, stdinWrites, stdinLock>>
    /\ UNCHANGED <<op, twinVars, provVars>>

\* line 189: the agent exits and the exit promise's callback runs
AgentExit ==
    /\ Spawned
    /\ exitCode = -1
    /\ \E c \in {0, 1} : exitCode' = c
    /\ exited' = (pc # "send")
    /\ UNCHANGED <<pc, result, eventSink, sinkCalls, sent, rd, buffer, response,
                   parsed, stdoutClosed, stdinWrites, stdinLock>>
    /\ UNCHANGED <<op, twinVars, provVars>>

\* line 190: the device disconnects and the callback runs
Disconnect ==
    /\ pc \in {"loop", "read"}
    /\ ~exited
    /\ exitCode = -1
    /\ exited' = TRUE
    /\ UNCHANGED <<pc, result, eventSink, sinkCalls, sent, rd, buffer, response,
                   parsed, exitCode, stdoutClosed, stdinWrites, stdinLock>>
    /\ UNCHANGED <<op, twinVars, provVars>>

\* the transport ends the stdout stream of a finished or lost process
StdoutClose ==
    /\ exited
    /\ ~stdoutClosed
    /\ stdoutClosed' = TRUE
    /\ UNCHANGED <<pc, result, eventSink, sinkCalls, sent, rd, buffer, response,
                   parsed, exited, exitCode, stdinWrites, stdinLock>>
    /\ UNCHANGED <<op, twinVars, provVars>>

----------------------------------------------------------------------------
(* prepareAgent: hashes, the device and the log *)

\* String.prototype.toUpperCase on one character
UpperChar(c) ==
    CASE c = "a" -> "A" [] c = "b" -> "B" [] c = "c" -> "C" [] c = "d" -> "D"
      [] c = "e" -> "E" [] c = "f" -> "F" [] OTHER -> c

\* String.prototype.toUpperCase
ToUpperCase(str) == [i \in 1..Len(str) |-> UpperChar(str[i])]

Whitespace == {NL, " "}

RECURSIVE Trim(_)
\* String.prototype.trim
Trim(str) ==
    IF str = <<>> THEN str
    ELSE IF Head(str) \in Whitespace THEN Trim(Tail(str))
    ELSE IF str[Len(str)] \in Whitespace THEN Trim(SubSeq(str, 1, Len(str) - 1))
    ELSE str

\* the SHA-1 of each file content the model knows, as sha1sum's hex digits
Sha1Hex(content) ==
    CASE content = "good" -> <<"a", "f">>
      [] content = "old" -> <<"0", "b">>
      [] content = "stale" -> <<"9", "c">>
      [] content = "partial" -> <<"1", "d">>

\* the binary the build hashed into AGENT_SHA1, and what the host may serve
Payloads == {"good", "stale"}

\* every way of writing a hex string in upper and lower case
CaseVariants(hex) ==
    {v \in [1..Len(hex) -> {hex[i] : i \in 1..Len(hex)} \cup {UpperChar(hex[i]) : i \in 1..Len(hex)}] :
        \A i \in 1..Len(hex) : UpperChar(v[i]) = UpperChar(hex[i])}

Absent == [content |-> "none", exec |-> FALSE]

\* line 38: stdout of `sha1sum AgentPath | cut -f 1 -d " "`
Sha1sumStdout(file, upper) ==
    IF file.content = "none" THEN <<>>
    ELSE (IF upper THEN ToUpperCase(Sha1Hex(file.content)) ELSE Sha1Hex(file.content))
         \o <<NL>>

\* lines 38-40
ExistingSha1(stdout) == ToUpperCase(Trim(stdout))

\* line 42
UpToDate(expected, exsitingSha1) == expected = ToUpperCase(Trim(exsitingSha1))

\* line 96
MAX_ATTEMPTS == 3

\* line 97
PROGRESS_UPDATE_INTERVAL == 1000

\* the milliseconds that may pass between two events of a transfer
Delays == {0, 600, 1000, 1001}

\* ProgressDue with the interval itself already enough
ProgressDueInclusive(timeNow, last) == timeNow - last >= PROGRESS_UPDATE_INTERVAL

\* line 131
ProgressDue(timeNow, last) == timeNow - last > PROGRESS_UPDATE_INTERVAL

\* no transfer is open
XhrIdle ==
    /\ now = 0
    /\ lastReadTime = 0
    /\ progressTimes = <<>>
    /\ ticks = 0
    /\ lengthComputable = FALSE

\* lines 107-123, 139: a transfer is opened
XhrOpen ==
    /\ now' = 0
    /\ lastReadTime' = now'
    /\ progressTimes' = <<>>
    /\ ticks' = 0
    /\ lengthComputable' = FALSE

\* the transfer is over and its closure is dropped
XhrClose ==
    /\ now' = 0
    /\ lastReadTime' = 0
    /\ progressTimes' = <<>>
    /\ ticks' = 0
    /\ lengthComputable' = FALSE

\* AttemptsRemain with the bound off by one
AttemptsRemainOffByOne(n) == n < MAX_ATTEMPTS

\* line 152 (and 149): whether another attempt is made
AttemptsRemain(n) == n <= MAX_ATTEMPTS

\* lines 22-31: logInfo, for the messages of one step
LogInfo(msgs) ==
    /\ logged' = logged \o msgs
    /\ sinkCalls' = IF eventSink # "null"
                    THEN sinkCalls \o [i \in 1..Len(msgs) |-> LogMsg("Info", msgs[i])]
                    ELSE sinkCalls

UploadTimeoutError ==
    <<"Did not finish pushing agent after 30 seconds.">>
FetchError ==
    <<"Failed to fetch agent after multiple attempts.">>

\* FailOverwrite with the exception leaving overwriteAgent past its finally
FailOverwriteKeepsHandle(text) ==
    /\ pc' = "done"
    /\ result' = Throw(text)
    /\ UNCHANGED sync

\* lines 64-67: an exception leaves overwriteAgent through its finally
FailOverwrite(text) ==
    /\ pc' = "done"
    /\ result' = Throw(text)
    /\ sync' = "disposed"

----------------------------------------------------------------------------
(* prepareAgent, overwriteAgent, saveAgent, downloadAgent: the program's steps *)

\* lines 33-38, up to the await of the hash command
PrepareAgent ==
    /\ pc = "prepareAgent"
    /\ LogInfo(<<"Preparing agent: used to communicate with your Quest.">>)
    /\ issued' = Append(issued, "sha1sum")
    /\ pc' = "sha1sum"
    /\ UNCHANGED <<result, eventSink, op, twinVars, sessVars, agentSha1, hexUpper, xhrVars, cmdFailed, deviceFile,
                   deviceFile0, sha1Out, existingUpToDate, attempt, xhrs, agent,
                   upload, timer, sync>>

\* lines 38-53: the hash command returned; compare, and return or start
\* overwriteAgent up to its await of adb.sync()
HashDone ==
    /\ pc = "sha1sum"
    /\ LET stdout == Sha1sumStdout(deviceFile, hexUpper)
           same == UpToDate(agentSha1, ExistingSha1(stdout))
       IN /\ sha1Out' = stdout
          /\ existingUpToDate' = same
          /\ IF same
             THEN /\ LogInfo(<<"Agent is up to date">>)
                  /\ pc' = "done"
                  /\ result' = Return(Null)
             ELSE /\ pc' = "sync"
                  /\ UNCHANGED <<logged, sinkCalls, result>>
    /\ UNCHANGED <<eventSink, op, twinVars, sessVars, agentSha1, hexUpper, xhrVars, cmdFailed, deviceFile, deviceFile0,
                   issued, attempt, xhrs, agent, upload, timer, sync>>

\* line 38: the hash command could not be run (the transport failed)
HashThrows ==
    /\ pc = "sha1sum"
    /\ pc' = "done"
    /\ result' = Throw(<<"sha1sum: transport error">>)
    /\ UNCHANGED <<eventSink, sinkCalls, op, twinVars, sessVars, provVars>>

\* lines 53-57: the sync handle arrived; start the remove
SyncOpened ==
    /\ pc = "sync"
    /\ sync' = "open"
    /\ LogInfo(<<"Removing existing agent">>)
    /\ issued' = Append(issued, "rm")
    /\ pc' = "rm"
    /\ UNCHANGED <<result, eventSink, op, twinVars, sessVars, agentSha1, hexUpper, xhrVars, cmdFailed, deviceFile,
                   deviceFile0, sha1Out, existingUpToDate, attempt, xhrs, agent,
                   upload, timer>>

\* lines 57-59, 74, 96-139: rm returned, whatever its exit status: the file is
\* gone (removed, or never there), or rm failed and left it; saveAgent calls
\* downloadAgent, which opens transfer 1
RmDone ==
    /\ pc = "rm"
    /\ \/ /\ deviceFile' = Absent
          /\ UNCHANGED cmdFailed
       \/ /\ deviceFile.content # "none"
          /\ cmdFailed' = cmdFailed \cup {"rm"}
          /\ UNCHANGED deviceFile
    /\ LogInfo(<<"Downloading agent, this might take a minute if it's not cached">>)
    /\ attempt' = 1
    /\ issued' = Append(issued, "fetch")
    /\ pc' = "xhr"
    /\ XhrOpen
    /\ UNCHANGED <<result, eventSink, op, twinVars, sessVars, agentSha1, hexUpper, deviceFile0,
                   sha1Out, existingUpToDate, xhrs, agent, upload, timer, sync>>

\* line 57: the remove could not be run (the transport failed)
RmThrows ==
    /\ pc = "rm"
    /\ FailOverwrite(<<"rm: transport error">>)
    /\ UNCHANGED <<eventSink, sinkCalls, op, twinVars, sessVars, agentSha1, hexUpper, xhrVars, cmdFailed, deviceFile,
                   deviceFile0, sha1Out, existingUpToDate, issued, logged, attempt,
                   xhrs, agent, upload, timer>>

\* lines 112-114, 142-143, 76-92: the transfer loaded with a 2xx status;
\* downloadAgent returns its bytes and saveAgent starts the write and the timer
XhrLoad ==
    /\ pc = "xhr"
    /\ \E payload \in Payloads :
          /\ xhrs' = Append(xhrs, payload)
          /\ agent' = payload
    /\ LogInfo(<<"Download complete, getting byte array from response",
                 "Got bytes, converting into readable stream",
                 "Writing agent to quest!">>)
    /\ issued' = Append(issued, "write")
    /\ upload' = "inflight"
    /\ timer' = "armed"
    /\ pc' = "race"
    /\ XhrClose
    /\ UNCHANGED <<result, eventSink, op, twinVars, sessVars, agentSha1, hexUpper, cmdFailed,
                   deviceFile, deviceFile0, sha1Out, existingUpToDate, attempt, sync>>

\* lines 115-121, 144-154: the transfer failed (status or network); count it
\* and either open the next transfer or give up
XhrFail ==
    /\ pc = "xhr"
    /\ xhrs' = Append(xhrs, "fail")
    /\ attempt' = attempt + 1
    /\ IF AttemptsRemain(attempt + 1)
       THEN /\ LogInfo(<<"Failed to fetch agent, status",
                         "Failed to download agent, trying again...">>)
            /\ issued' = Append(issued, "fetch")
            /\ XhrOpen
            /\ UNCHANGED <<pc, result, sync>>
       ELSE /\ LogInfo(<<"Failed to fetch agent, status">>)
            /\ FailOverwrite(FetchError)
            /\ XhrClose
            /\ UNCHANGED issued
    /\ UNCHANGED <<eventSink, op, twinVars, sessVars, agentSha1, hexUpper, cmdFailed, deviceFile,
                   deviceFile0, sha1Out, existingUpToDate, agent, upload, timer>>

\* lines 124-137: the open transfer delivers a progress event, some time after
\* the event before it
XhrProgress ==
    /\ pc = "xhr"
    /\ ticks < MaxTicks
    /\ ticks' = ticks + 1
    /\ \E d \in Delays, computable \in BOOLEAN :
          LET timeNow == now + d
          IN /\ now' = timeNow
             /\ lengthComputable' = computable
             /\ IF computable /\ ProgressDue(timeNow, lastReadTime)
                THEN /\ lastReadTime' = timeNow
                     /\ progressTimes' = Append(progressTimes, timeNow)
                     /\ LogInfo(<<"Download % complete">>)
                ELSE UNCHANGED <<lastReadTime, progressTimes, logged, sinkCalls>>
    /\ UNCHANGED <<pc, result, eventSink, op, twinVars, sessVars, agentSha1, hexUpper, cmdFailed,
                   deviceFile, deviceFile0, sha1Out, existingUpToDate, issued,
                   attempt, xhrs, agent, upload, timer, sync>>

\* lines 92, 60-61: the write finished before the timer; start chmod
WriteDone ==
    /\ pc = "race"
    /\ upload' = "done"
    /\ deviceFile' = [content |-> agent, exec |-> FALSE]
    /\ LogInfo(<<"Making agent executable">>)
    /\ issued' = Append(issued, "chmod")
    /\ pc' = "chmod"
    /\ UNCHANGED <<result, eventSink, op, twinVars, sessVars, agentSha1, hexUpper, xhrVars, cmdFailed, deviceFile0,
                   sha1Out, existingUpToDate, attempt, xhrs, agent, timer, sync>>

\* line 92: the write failed before the timer
WriteFail ==
    /\ pc = "race"
    /\ upload' = "failed"
    /\ deviceFile' = [content |-> "partial", exec |-> FALSE]
    /\ FailOverwrite(<<"sync.write failed">>)
    /\ UNCHANGED <<eventSink, sinkCalls, op, twinVars, sessVars, agentSha1, hexUpper, xhrVars, cmdFailed, deviceFile0,
                   sha1Out, existingUpToDate, issued, logged, attempt, xhrs, agent,
                   timer>>

\* TimeoutRejects with the timer left out of the race (the write alone awaited)
TimeoutIgnored == FALSE

\* lines 85-92: Promise.race settles with the promise that settles first, so a
\* timer that fires before the write ends rejects it
TimeoutRejects == TRUE

\* lines 85-92: the timer fires while the write is still in flight.  The write
\* is not cancelled.
UploadTimeout ==
    /\ pc = "race"
    /\ timer = "armed"
    /\ timer' = "fired"
    /\ IF TimeoutRejects
       THEN /\ FailOverwrite(UploadTimeoutError)
            /\ UNCHANGED <<issued, logged, sinkCalls>>
       ELSE /\ LogInfo(<<"Making agent executable">>)
            /\ issued' = Append(issued, "chmod")
            /\ pc' = "chmod"
            /\ UNCHANGED <<result, sync>>
    /\ UNCHANGED <<eventSink, op, twinVars, sessVars, agentSha1, hexUpper, xhrVars, cmdFailed, deviceFile, deviceFile0,
                   sha1Out, existingUpToDate, attempt, xhrs, agent, upload>>

\* lines 61-67: chmod returned, whatever its exit status: it set the
\* executable bit, or failed and left the file as it was
ChmodDone ==
    /\ pc = "chmod"
    /\ \/ /\ deviceFile' = [deviceFile EXCEPT !.exec = (deviceFile.content # "none")]
          /\ UNCHANGED cmdFailed
       \/ /\ cmdFailed' = cmdFailed \cup {"chmod"}
          /\ UNCHANGED deviceFile
    /\ LogInfo(<<"Agent is ready">>)
    /\ sync' = "disposed"
    /\ pc' = "done"
    /\ result' = Return(Null)
    /\ UNCHANGED <<eventSink, op, twinVars, sessVars, agentSha1, hexUpper, xhrVars, deviceFile0, sha1Out,
                   existingUpToDate, issued, attempt, xhrs, agent, upload, timer>>

\* line 61: chmod could not be run (the transport failed)
ChmodThrows ==
    /\ pc = "chmod"
    /\ FailOverwrite(<<"chmod: transport error">>)
    /\ UNCHANGED <<eventSink, sinkCalls, op, twinVars, sessVars, agentSha1, hexUpper, xhrVars, cmdFailed, deviceFile,
                   deviceFile0, sha1Out, existingUpToDate, issued, logged, attempt,
                   xhrs, agent, upload, timer>>

\* the write that lost the race of line 92 ends on its own, later
LateWrite ==
    /\ upload = "inflight"
    /\ pc # "race"
    /\ \/ /\ upload' = "done"
          /\ deviceFile' = [content |-> agent, exec |-> FALSE]
       \/ /\ upload' = "failed"
          /\ deviceFile' = [content |-> "partial", exec |-> FALSE]
    /\ UNCHANGED <<pc, result, eventSink, sinkCalls, op, twinVars, sessVars, agentSha1, hexUpper, xhrVars, cmdFailed,
                   deviceFile0, sha1Out, existingUpToDate, issued, logged, attempt,
                   xhrs, agent, timer, sync>>

----------------------------------------------------------------------------

\* no second run is followed
TwinOff ==
    /\ phase = "off"
    /\ before = <<>>
    /\ after = <<>>
    /\ otherCalls = <<>>

\* no prepareAgent in progress
ProvisionIdle ==
    /\ agentSha1 = ToUpperCase(Sha1Hex("good"))
    /\ hexUpper = FALSE
    /\ deviceFile = [content |-> "good", exec |-> TRUE]
    /\ deviceFile0 = deviceFile
    /\ sha1Out = <<>>
    /\ existingUpToDate = FALSE
    /\ issued = <<>>
    /\ logged = <<>>
    /\ attempt = 0
    /\ xhrs = <<>>
    /\ agent = "none"
    /\ upload = "idle"
    /\ timer = "idle"
    /\ sync = "none"
    /\ cmdFailed = {}
    /\ XhrIdle

\* no sendRequest in progress
SessionIdle ==
    /\ sent = <<>>
    /\ rd = 0
    /\ buffer = <<>>
    /\ response = Null
    /\ parsed = <<>>
    /\ exited = FALSE
    /\ exitCode = -1
    /\ stdoutClosed = FALSE
    /\ stdinWrites = <<>>
    /\ stdinLock = "none"

EnterPrepareAgent ==
    /\ pc = "prepareAgent"
    /\ op = "none"
    /\ result = NoResult
    /\ eventSink \in {"null", "sink"}
    /\ sinkCalls = <<>>
    /\ SessionIdle
    /\ agentSha1 \in CaseVariants(Sha1Hex("good"))
    /\ hexUpper \in BOOLEAN
    /\ deviceFile \in {Absent} \cup {[content |-> c, exec |-> TRUE] : c \in {"good", "old"}}
    /\ deviceFile0 = deviceFile
    /\ sha1Out = <<>>
    /\ existingUpToDate = FALSE
    /\ issued = <<>>
    /\ logged = <<>>
    /\ attempt = 0
    /\ xhrs = <<>>
    /\ agent = "none"
    /\ upload = "idle"
    /\ timer = "idle"
    /\ sync = "none"
    /\ cmdFailed = {}
    /\ XhrIdle

NextProvision ==
    \/ PrepareAgent
    \/ HashDone
    \/ HashThrows
    \/ SyncOpened
    \/ RmDone
    \/ RmThrows
    \/ XhrLoad
    \/ XhrFail
    \/ XhrProgress
    \/ WriteDone
    \/ WriteFail
    \/ UploadTimeout
    \/ ChmodDone
    \/ ChmodThrows
    \/ LateWrite

InitProvision == EnterPrepareAgent /\ TwinOff

SpecProvision == InitProvision /\ [][NextProvision]_vars

----------------------------------------------------------------------------

EnterSendRequest ==
    /\ pc = "spawn"
    /\ op = "none"
    /\ result = NoResult
    /\ eventSink \in {"null", "sink"}
    /\ sinkCalls = <<>>
    /\ SessionIdle
    /\ ProvisionIdle

NextSession ==
    \/ Spawn
    \/ Send
    \/ LoopCheck
    \/ ReadChunk
    \/ ReadEnd
    \/ Resolve
    \/ AgentWrite
    \/ AgentExit
    \/ Disconnect
    \/ StdoutClose

InitSession == EnterSendRequest /\ TwinOff

SpecSession == InitSession /\ [][NextSession]_vars

\* program steps are continuations of resolved promises and always get to run;
\* the transport ends the stdout of a finished or lost process; nothing forces
\* the agent to write or to exit
FairSession ==
    /\ SpecSession
    /\ WF_vars(Spawn) /\ WF_vars(Send) /\ WF_vars(LoopCheck)
    /\ WF_vars(ReadChunk) /\ WF_vars(ReadEnd) /\ WF_vars(Resolve)
    /\ WF_vars(StdoutClose)

----------------------------------------------------------------------------
(* The exported operations, each up to the spawn of its session *)

\* lines 266-423: the exported functions that end in a sendRequest
Operations ==
    {"loadModStatus", "setModStatuses", "getDowngradedManifest", "importFile",
     "importUrl", "removeMod", "patchApp", "quickFix", "fixPlayerData"}

\* CallOperation with loadModStatus going straight to sendRequest
CallOperationSkipsPrepare ==
    /\ pc = "call"
    /\ IF op = "importFile"
       THEN /\ sync' = "open"
            /\ issued' = Append(issued, "importWrite")
            /\ pc' = "importWrite"
       ELSE /\ pc' = "spawn"
            /\ UNCHANGED <<sync, issued>>
    /\ UNCHANGED <<result, eventSink, sinkCalls, op, twinVars, sessVars, agentSha1, hexUpper, xhrVars, cmdFailed,
                   deviceFile, deviceFile0, sha1Out, existingUpToDate, logged,
                   attempt, xhrs, agent, upload, timer>>

\* lines 267 (loadModStatus), 301-310 (importFile), and the first line of the
\* other seven: what the operation does before anything else
CallOperation ==
    /\ pc = "call"
    /\ IF op = "loadModStatus"
       THEN /\ pc' = "prepareAgent"
            /\ UNCHANGED <<sync, issued>>
       ELSE IF op = "importFile"
       THEN /\ sync' = "open"
            /\ issued' = Append(issued, "importWrite")
            /\ pc' = "importWrite"
       ELSE /\ pc' = "spawn"
            /\ UNCHANGED <<sync, issued>>
    /\ UNCHANGED <<result, eventSink, sinkCalls, op, twinVars, sessVars, agentSha1, hexUpper, xhrVars, cmdFailed,
                   deviceFile, deviceFile0, sha1Out, existingUpToDate, logged,
                   attempt, xhrs, agent, upload, timer>>

\* lines 307-319: importFile's upload of the user's file ended; sendRequest is
\* called, or the exception leaves through the finally
ImportWritten ==
    /\ pc = "importWrite"
    /\ \/ /\ pc' = "spawn"
          /\ UNCHANGED <<result, sync>>
       \/ /\ pc' = "done"
          /\ result' = Throw(<<"sync.write failed">>)
          /\ sync' = "disposed"
    /\ UNCHANGED <<eventSink, sinkCalls, op, twinVars, sessVars, agentSha1, hexUpper, xhrVars, cmdFailed,
                   deviceFile, deviceFile0, sha1Out, existingUpToDate, issued,
                   logged, attempt, xhrs, agent, upload, timer>>

\* lines 267-269: prepareAgent returned to loadModStatus, which calls
\* sendRequest; an exception of prepareAgent ends loadModStatus instead
PrepareReturned ==
    /\ op = "loadModStatus"
    /\ pc = "done"
    /\ result = Return(Null)
    /\ stdinLock = "none"
    /\ pc' = "spawn"
    /\ result' = NoResult
    /\ UNCHANGED <<eventSink, sinkCalls, op, twinVars, sessVars, provVars>>

InitOps ==
    /\ TwinOff
    /\ pc = "call"
    /\ op \in Operations
    /\ result = NoResult
    /\ eventSink \in {"null", "sink"}
    /\ sinkCalls = <<>>
    /\ SessionIdle
    /\ agentSha1 \in CaseVariants(Sha1Hex("good"))
    /\ hexUpper \in BOOLEAN
    /\ deviceFile \in {Absent} \cup {[content |-> c, exec |-> TRUE] : c \in {"good", "old"}}
    /\ deviceFile0 = deviceFile
    /\ sha1Out = <<>>
    /\ existingUpToDate = FALSE
    /\ issued = <<>>
    /\ logged = <<>>
    /\ attempt = 0
    /\ xhrs = <<>>
    /\ agent = "none"
    /\ upload = "idle"
    /\ timer = "idle"
    /\ sync = "none"
    /\ cmdFailed = {}
    /\ XhrIdle

NextOps ==
    \/ CallOperation
    \/ ImportWritten
    \/ NextProvision
    \/ PrepareReturned
    \/ Spawn

\* what happens from the spawn on is SpecSession
SpecOps == InitOps /\ [][NextOps]_vars

----------------------------------------------------------------------------
(* The demultiplexer on its own: any lines, of every level, then the exit *)

\* every message the wire format of lines 218-237 can carry
AllMessages ==
    {LogMsg(l, m) : l \in Levels, m \in Bodies} \cup {ModStatus(p) : p \in Bodies}

\* lines 214-238: the loop body of the for loop, for one complete line
DemuxLine ==
    /\ pc = "demux"
    /\ Len(parsed) < MaxFrames
    /\ \E msg \in AllMessages :
          LET st == Frames([response |-> response, calls |-> sinkCalls,
                            parsed |-> parsed, thrown |-> FALSE, bad |-> <<>>],
                           <<Encode(msg)>>)
          IN /\ response' = st.response
             /\ sinkCalls' = st.calls
             /\ parsed' = st.parsed
    /\ UNCHANGED <<pc, result, eventSink, sent, rd, buffer, exited, exitCode,
                   stdoutClosed, stdinWrites, stdinLock>>
    /\ UNCHANGED <<op, twinVars, provVars>>

\* lines 242-258: the agent has exited and the latched response is interpreted
DemuxExit ==
    /\ pc = "demux"
    /\ \E code \in {0, 1} :
          /\ exitCode' = code
          /\ result' = Outcome(code, response, AgentStderr)
    /\ exited' = TRUE
    /\ pc' = "done"
    /\ UNCHANGED <<eventSink, sinkCalls, sent, rd, buffer, response, parsed,
                   stdoutClosed, stdinWrites, stdinLock>>
    /\ UNCHANGED <<op, twinVars, provVars>>

InitDemux ==
    /\ TwinOff
    /\ pc = "demux"
    /\ op = "none"
    /\ result = NoResult
    /\ eventSink \in {"null", "sink"}
    /\ sinkCalls = <<>>
    /\ SessionIdle
    /\ ProvisionIdle

NextDemux ==
    \/ DemuxLine
    \/ DemuxExit

SpecDemux == InitDemux /\ [][NextDemux]_vars

----------------------------------------------------------------------------
(* One call run twice, with an observer and without, step for step *)

\* frames and progress events of a call that is run twice
TwinFrames == 1
TwinTicks == 1

\* the state of the run that is loaded
Snapshot ==
    [
    pc |-> pc, result |-> result, eventSink |-> eventSink,
     sinkCalls |-> sinkCalls, op |-> op, sent |-> sent, rd |-> rd,
     buffer |-> buffer, response |-> response, parsed |-> parsed,
     exited |-> exited, exitCode |-> exitCode, stdoutClosed |-> stdoutClosed,
     stdinWrites |-> stdinWrites, stdinLock |-> stdinLock,
     agentSha1 |-> agentSha1, hexUpper |-> hexUpper,
     deviceFile |-> deviceFile, deviceFile0 |-> deviceFile0,
     sha1Out |-> sha1Out, existingUpToDate |-> existingUpToDate,
     issued |-> issued, logged |-> logged, attempt |-> attempt,
     xhrs |-> xhrs, agent |-> agent, upload |-> upload, timer |-> timer,
     sync |-> sync, cmdFailed |-> cmdFailed, now |-> now,
     lastReadTime |-> lastReadTime, progressTimes |-> progressTimes,
     ticks |-> ticks, lengthComputable |-> lengthComputable]

\* a state with the observer and what it was told left out
Protocol(s) == [s EXCEPT !.eventSink = "any", !.sinkCalls = <<>>]

\* the other value of the eventSink argument
OtherSink(sink) == IF sink = "null" THEN "sink" ELSE "null"

\* make s the state of the run that is loaded
Load(s) ==
    /\ pc' = s.pc
    /\ result' = s.result
    /\ eventSink' = s.eventSink
    /\ sinkCalls' = s.sinkCalls
    /\ op' = s.op
    /\ sent' = s.sent
    /\ rd' = s.rd
    /\ buffer' = s.buffer
    /\ response' = s.response
    /\ parsed' = s.parsed
    /\ exited' = s.exited
    /\ exitCode' = s.exitCode
    /\ stdoutClosed' = s.stdoutClosed
    /\ stdinWrites' = s.stdinWrites
    /\ stdinLock' = s.stdinLock
    /\ agentSha1' = s.agentSha1
    /\ hexUpper' = s.hexUpper
    /\ deviceFile' = s.deviceFile
    /\ deviceFile0' = s.deviceFile0
    /\ sha1Out' = s.sha1Out
    /\ existingUpToDate' = s.existingUpToDate
    /\ issued' = s.issued
    /\ logged' = s.logged
    /\ attempt' = s.attempt
    /\ xhrs' = s.xhrs
    /\ agent' = s.agent
    /\ upload' = s.upload
    /\ timer' = s.timer
    /\ sync' = s.sync
    /\ cmdFailed' = s.cmdFailed
    /\ now' = s.now
    /\ lastReadTime' = s.lastReadTime
    /\ progressTimes' = s.progressTimes
    /\ ticks' = s.ticks
    /\ lengthComputable' = s.lengthComputable

\* a step of sendRequest or of prepareAgent, with the environment's
NextCall == NextSession \/ NextProvision

\* the loaded run leads: it takes any step
TwinLead ==
    /\ phase = "lead"
    /\ Snapshot = before
    /\ NextCall
    /\ Len(sent') <= TwinFrames
    /\ ticks' <= TwinTicks

\* the leading run has stepped: keep where it got to, and load the other run
\* as it stood before that step
TwinRewind ==
    /\ phase = "lead"
    /\ Snapshot # before
    /\ after' = Snapshot
    /\ phase' = "follow"
    /\ Load([before EXCEPT !.eventSink = OtherSink(@), !.sinkCalls = otherCalls])
    /\ UNCHANGED <<before, otherCalls>>

\* the other run follows: the agent has written and stdout has delivered what
\* they did for the leading run, and the step leaves this run, observer aside,
\* where the leading run's step left that one
TwinFollow ==
    /\ phase = "follow"
    /\ Protocol(Snapshot) = Protocol(before)
    /\ sent' = after.sent
    /\ rd' = after.rd
    /\ NextCall
    /\ Protocol(Snapshot') = Protocol(after)

\* the other run has followed; it leads the next step
TwinDone ==
    /\ phase = "follow"
    /\ Protocol(Snapshot) = Protocol(after)
    /\ Protocol(Snapshot) # Protocol(before)
    /\ phase' = "lead"
    /\ before' = Snapshot
    /\ after' = Snapshot
    /\ otherCalls' = after.sinkCalls
    /\ UNCHANGED <<pc, result, eventSink, sinkCalls, op, sessVars, provVars>>

InitTwin ==
    /\ EnterSendRequest \/ EnterPrepareAgent
    /\ phase = "lead"
    /\ before = Snapshot
    /\ after = Snapshot
    /\ otherCalls = <<>>

NextTwin ==
    \/ TwinLead
    \/ TwinRewind
    \/ TwinFollow
    \/ TwinDone

SpecTwin == InitTwin /\ [][NextTwin]_vars

----------------------------------------------------------------------------
(* Claims about sendRequest *)

\* the whole stdout text and the part the reader has handed out
Stream == Flatten(sent)
Consumed == SubSeq(Stream, 1, rd)

RECURSIVE Lines(_, _)
\* the newline-terminated segments of a text, scanning left to right
Lines(text, cur) ==
    IF text = <<>> THEN <<>>
    ELSE IF Head(text) = NL THEN <<cur>> \o Lines(Tail(text), <<>>)
    ELSE Lines(Tail(text), Append(cur, Head(text)))

RECURSIVE Partial(_, _)
\* what follows the last newline of a text
Partial(text, cur) ==
    IF text = <<>> THEN cur
    ELSE IF Head(text) = NL THEN Partial(Tail(text), <<>>)
    ELSE Partial(Tail(text), Append(cur, Head(text)))

\* a sequence of lines cut after its first line that is not JSON
UpToFirstInvalid(ls) ==
    IF \A i \in 1..Len(ls) : ValidJson(ls[i]) THEN ls
    ELSE SubSeq(ls, 1, CHOOSE i \in 1..Len(ls) :
                          ~ValidJson(ls[i]) /\ \A j \in 1..(i - 1) : ValidJson(ls[j]))

AllValid(fs) == \A i \in 1..Len(fs) : ValidJson(fs[i])
IsLog(f) == ValidJson(f) /\ JsonParse(f).type = "LogMsg"
IsTerminal(f) == ValidJson(f) /\ JsonParse(f).type # "LogMsg"

\* N log frames followed by one terminal frame
LogsThenTerminal(fs) ==
    /\ Len(fs) >= 1
    /\ \A i \in 1..(Len(fs) - 1) : IsLog(fs[i])
    /\ IsTerminal(fs[Len(fs)])

\* only log frames, the last of level Error
LogsEndingInError(fs) ==
    /\ Len(fs) >= 1
    /\ \A i \in 1..Len(fs) : IsLog(fs[i])
    /\ JsonParse(fs[Len(fs)]).level = "Error"

\* the request reached the agent: spawn and the stdin write both went through
RequestSent == Len(stdinWrites) = 1

\* C1: the agent wrote N log frames and one terminal frame and exited 0; then
\* sendRequest returns the terminal payload and the sink was called once per log
\* frame, in order, whatever the chunking and wherever the exit notification
\* falls among the reads.
C1_ReturnsTerminalOnAnyOrdering ==
    (/\ pc = "done" /\ RequestSent /\ exitCode = 0 /\ eventSink = "sink"
     /\ LogsThenTerminal(sent))
    => /\ result = Return(JsonParse(sent[Len(sent)]))
       /\ sinkCalls = [i \in 1..(Len(sent) - 1) |-> JsonParse(sent[i])]

\* C2: the lines handed to JSON.parse are the newline-terminated segments of the
\* text read so far, in order (up to the first that is not JSON, which aborts),
\* and the buffer is what follows the last newline: neither depends on where the
\* text was cut into chunks.
C2_FramesIndependentOfChunking ==
    /\ parsed = UpToFirstInvalid(Lines(Consumed, <<>>))
    /\ buffer = Partial(Consumed, <<>>)

\* a chunk ended inside a JSON value after a complete frame was decoded, and
\* later a second frame came out whole
C2_Witness ==
    /\ Len(parsed) = 2 /\ AllValid(parsed)
    /\ Len(buffer) = 1
    /\ pc = "loop"

\* C3: once N log frames (of any level) and then one terminal frame have been
\* processed, the latched response is that terminal frame.
C3_TerminalOverridesLatch ==
    LogsThenTerminal(parsed) => response = JsonParse(parsed[Len(parsed)])

\* an Error log was latched and a terminal frame processed after it
C3_Witness ==
    /\ Len(parsed) = 3
    /\ LogsThenTerminal(parsed)
    /\ JsonParse(parsed[2]).level = "Error"
    /\ response = JsonParse(parsed[3])

\* C4: the agent wrote only log frames, the last of level Error, and exited 0;
\* then sendRequest fails with that last log's message as the reason.
C4_FailsWithLastErrorLog ==
    (/\ pc = "done" /\ RequestSent /\ exitCode = 0
     /\ LogsEndingInError(sent))
    => result = Throw(<<BackTick, JsonParse(sent[Len(sent)]).body, BackTick>>)

InvocationFailed ==
    Throw(<<"Failed to invoke agent: is the executable corrupt?">> \o <<"x", "y">>)

\* C5 as stated: whenever the agent exited with a non-zero code the session
\* fails with the invocation error carrying the whole of stderr.
C5_NonZeroAlwaysInvocationError ==
    (pc = "done" /\ RequestSent /\ exitCode >= 1) => result = InvocationFailed

\* C5 amended: on a non-zero exit code a session that was not already aborted by
\* a line that is not JSON fails with the invocation error carrying the whole of
\* stderr, whatever is latched; and no session returns a value on a non-zero
\* exit code.
C5_NonZeroInvocationErrorUnlessAborted ==
    /\ (pc = "done" /\ RequestSent /\ exitCode >= 1 /\ AllValid(parsed))
          => result = InvocationFailed
    /\ (result.kind = "return" => exitCode = 0)

\* a terminal response was latched and the session still failed on exit code 1
C5_Witness ==
    /\ pc = "done" /\ exitCode = 1
    /\ response # Null /\ response.type # "LogMsg"
    /\ result = InvocationFailed

\* C9: once the exit or the disconnect notification has set the flag, the
\* session resolves, with no further stdout and no exit notification needed.
C9_ResolvesAfterExitOrDisconnect ==
    (exited /\ pc \in {"loop", "read", "awaitExit"}) ~> (pc = "done")

----------------------------------------------------------------------------
(* Claims about prepareAgent *)

Range(seq) == {seq[i] : i \in 1..Len(seq)}

\* how often an operation was started
Count(seq, x) == Cardinality({i \in 1..Len(seq) : seq[i] = x})

\* two hash strings that differ at most in letter case
EqualIgnoringCase(a, b) ==
    /\ Len(a) = Len(b)
    /\ \A i \in 1..Len(a) : UpperChar(a[i]) = UpperChar(b[i])

\* the hash command has returned a hash
HashRead == pc \notin {"prepareAgent", "sha1sum"} /\ sha1Out # <<>>

\* C6: when the remote hash equals the expected hash, the hash computation is
\* the only remote operation issued (no remove, fetch, write or chmod) and the
\* installed file is left as it was.
C6_NoOpWhenHashesEqual ==
    (HashRead /\ Trim(sha1Out) = agentSha1)
    => /\ issued = <<"sha1sum">>
       /\ deviceFile = deviceFile0

\* C7: at most 3 transfers are opened; none is opened after one succeeded, whose
\* payload is what downloadAgent returns; and downloadAgent fails with the
\* connectivity message exactly when 3 transfers have failed.
C7_AtMostThreeAttempts ==
    /\ Count(issued, "fetch") <= 3
    /\ Count(issued, "fetch") = Len(xhrs) + (IF pc = "xhr" THEN 1 ELSE 0)
    /\ \A i \in 1..(Len(xhrs) - 1) : xhrs[i] = "fail"
    /\ agent # "none" => /\ xhrs # <<>>
                         /\ xhrs[Len(xhrs)] = agent
                         /\ agent \in Payloads
    /\ result = Throw(FetchError) <=> xhrs = <<"fail", "fail", "fail">>
    /\ (xhrs # <<>> /\ xhrs[Len(xhrs)] = "fail" /\ Len(xhrs) < 3) => pc = "xhr"

\* two transfers failed and the third delivered the payload
C7_Witness ==
    /\ xhrs = <<"fail", "fail", "good">>
    /\ agent = "good"
    /\ pc = "race"

\* C8: once the timer has fired with the write still in flight, prepareAgent
\* has failed with the upload-timeout error, chmod was never issued and
\* "Agent is ready" was never logged.
C8_TimeoutAbortsProvisioning ==
    timer = "fired"
    => /\ pc = "done"
       /\ result = Throw(UploadTimeoutError)
       /\ "chmod" \notin Range(issued)
       /\ "Agent is ready" \notin Range(logged)
       /\ LogMsg("Info", "Agent is ready") \notin Range(sinkCalls)

\* the timer fired and the write it raced is still in flight
C8_Witness ==
    /\ timer = "fired"
    /\ upload = "inflight"
    /\ result = Throw(UploadTimeoutError)

\* C10: whenever the remote hash and the expected hash differ at most in letter
\* case, the agent is treated as up to date and is not reinstalled.
C10_CaseInsensitiveCompare ==
    (HashRead /\ EqualIgnoringCase(Trim(sha1Out), agentSha1))
    => /\ existingUpToDate
       /\ issued = <<"sha1sum">>

\* prepareAgent has returned without an exception, by either path
Prepared == pc = "done" /\ result.kind = "return"

\* C11: whenever prepareAgent returns successfully, the hash of the installed
\* file equals the expected hash and the file is executable, whatever payload
\* was fetched and however remove, write and chmod ended.
C11_InstalledMatchesAfterSuccess ==
    Prepared
    => /\ deviceFile.content # "none"
       /\ EqualIgnoringCase(Sha1Hex(deviceFile.content), agentSha1)
       /\ deviceFile.exec

----------------------------------------------------------------------------
(* Claims about the exported operations *)

\* sendRequest got as far as its spawn
SpawnAttempted == pc = "send" \/ result = Throw(<<"spawn failed">>)

\* prepareAgent ran in this operation, starting with its hash check, and returned
Provisioned ==
    /\ issued # <<>> /\ issued[1] = "sha1sum"
    /\ sha1Out # <<>> \/ deviceFile0 = Absent
    /\ existingUpToDate \/ "chmod" \in Range(issued)

\* C12 as stated: whichever operation runs, its session is spawned only after
\* the provisioning hash check of the same operation.
C12_ProvisioningBeforeEverySpawn ==
    SpawnAttempted => Provisioned

\* C12 amended: loadModStatus spawns its session only after prepareAgent has run
\* its hash check and returned; the other eight operations spawn theirs with no
\* provisioning step at all.
C12_ProvisioningOnlyInLoadModStatus ==
    SpawnAttempted
    => IF op = "loadModStatus"
       THEN Provisioned
       ELSE "sha1sum" \notin Range(issued) /\ sha1Out = <<>> /\ logged = <<>>

\* loadModStatus reinstalled the agent and then spawned it
C12_Witness ==
    /\ op = "loadModStatus"
    /\ pc = "send"
    /\ "chmod" \in Range(issued)

----------------------------------------------------------------------------
(* Further claims about sendRequest *)

NoResponseError == Throw(<<"Received error response from agent">>)

\* C13: when the agent has exited with code 0 and nothing was ever latched (no
\* terminal frame and no Error log decoded), sendRequest fails and returns no
\* value; a session that got to the exit-code test fails with the no-response
\* error.
C13_NoResponseFails ==
    (pc = "done" /\ exitCode = 0 /\ response = Null)
    => /\ result.kind = "throw"
       /\ (RequestSent /\ AllValid(parsed)) => result = NoResponseError

\* only Info logs were decoded before the exit with code 0
C13_Witness ==
    /\ pc = "done" /\ exitCode = 0
    /\ response = Null
    /\ Len(parsed) = 2 /\ AllValid(parsed)
    /\ result = NoResponseError

----------------------------------------------------------------------------
(* Further claims about prepareAgent *)

\* the steps of the reinstall path, in the order they may be issued
ReinstallOrders ==
    UNION {{<<"sha1sum">> \o SubSeq(<<"rm">> \o [i \in 1..n |-> "fetch"]
                                        \o <<"write", "chmod">>, 1, k) :
               k \in 0..(n + 3)} : n \in 1..MAX_ATTEMPTS}

\* a step of the reinstall path has failed: a remote command exited non-zero
\* (for rm, with the file still there), the fetch ran out of attempts, or the
\* write failed or timed out
StepFailed ==
    \/ cmdFailed # {}
    \/ xhrs = <<"fail", "fail", "fail">>
    \/ upload = "failed"
    \/ timer = "fired"

\* C14: the reinstall path issues remove, fetch, write, chmod in this order,
\* each at most once (a fetch being up to three transfers), and once a step has
\* failed, other than a remove of a file that was not there, no later step is
\* issued and prepareAgent fails instead of returning.
C14_ReinstallInOrderAbortsOnFailure ==
    /\ issued \in ReinstallOrders \cup {<<>>}
    /\ StepFailed => /\ pc = "done"
                     /\ result.kind = "throw"

RECURSIVE LogsOf(_)
\* the log messages among some frames, in order
LogsOf(fs) ==
    IF fs = <<>> THEN <<>>
    ELSE IF IsLog(Head(fs)) THEN <<JsonParse(Head(fs))>> \o LogsOf(Tail(fs))
    ELSE LogsOf(Tail(fs))

RECURSIVE LatchOf(_)
\* the last terminal frame or Error log among some frames, Null if there is none
LatchOf(fs) ==
    IF fs = <<>> THEN Null
    ELSE LET f == fs[Len(fs)]
         IN IF IsTerminal(f) \/ (IsLog(f) /\ JsonParse(f).level = "Error")
            THEN JsonParse(f)
            ELSE LatchOf(SubSeq(fs, 1, Len(fs) - 1))

\* the complete lines of the text read so far
LinesRead == Lines(Consumed, <<>>)

\* the index of the first of some lines that is not JSON, 0 if all are
FirstInvalid(ls) ==
    IF AllValid(ls) THEN 0
    ELSE CHOOSE i \in 1..Len(ls) : ~ValidJson(ls[i]) /\ AllValid(SubSeq(ls, 1, i - 1))

\* C15: once a complete line that is not JSON has been read, sendRequest has
\* failed with an error that carries that line's text; the frames before it
\* were forwarded to the sink and latched as usual; and nothing after it was
\* decoded, forwarded or latched.
C15_MalformedFrameAborts ==
    LET i == FirstInvalid(LinesRead)
        preceding == SubSeq(LinesRead, 1, i - 1)
    IN i > 0
       => /\ pc = "done"
          /\ result = Throw(<<"Agent message ">> \o LinesRead[i] \o <<" was not valid JSON">>)
          /\ parsed = Append(preceding, LinesRead[i])
          /\ sinkCalls = IF eventSink = "sink" THEN LogsOf(preceding) ELSE <<>>
          /\ response = LatchOf(preceding)

\* one chunk held a log frame, the malformed line and a frame after it
C15_Witness ==
    /\ eventSink = "sink"
    /\ Len(LinesRead) = 3
    /\ FirstInvalid(LinesRead) = 2
    /\ IsLog(LinesRead[1]) /\ IsTerminal(LinesRead[3])
    /\ Len(sinkCalls) = 1
    /\ pc = "done"

\* sendRequest is past its stdin write
PastSend ==
    \/ pc \in {"read", "loop", "awaitExit"}
    \/ pc = "done" /\ result # Throw(<<"spawn failed">>)

\* C16: in one session stdin is written once, the request and one newline, and
\* never again; the writer lock is released after the write, also when the
\* write threw (and then nothing was written at all).
C16_StdinWrittenOnceThenReleased ==
    IF PastSend
    THEN /\ stdinLock = "released"
         /\ \/ stdinWrites = << <<"GetModStatus", NL>> >>
            \/ stdinWrites = <<>> /\ result = Throw(<<"stdin write failed">>)
    ELSE /\ stdinLock = "none"
         /\ stdinWrites = <<>>

\* the write threw and the lock was released all the same
C16_Witness ==
    /\ pc = "done"
    /\ result = Throw(<<"stdin write failed">>)
    /\ stdinWrites = <<>>
    /\ stdinLock = "released"

\* C17: once the exit or disconnect flag is set, no step issues a new
\* reader.read(); only a read that was already pending may still complete.
C17_NoReadIssuedAfterFlag ==
    [][(exited /\ pc # "read") => pc' # "read"]_vars

\* the loop was left on the flag with stdout text still unread
C17_Witness ==
    /\ exited
    /\ pc = "awaitExit"
    /\ rd < Len(Stream)

\* C19: in one transfer every progress notification comes more than 1000 ms
\* after the one before it, the first more than 1000 ms after the transfer was
\* opened (time 0), however many progress events arrive; and an event whose
\* total is unknown notifies nothing.
C19_ProgressThrottled ==
    /\ [](\A i \in 1..Len(progressTimes) :
             progressTimes[i] - (IF i = 1 THEN 0 ELSE progressTimes[i - 1]) > 1000)
    /\ [][(ticks' = ticks + 1 /\ ~lengthComputable')
             => UNCHANGED <<progressTimes, lastReadTime, logged, sinkCalls>>]_vars

\* two notifications went out, and then an event with an unknown total arrived
\* more than 1000 ms after the second
C19_Witness ==
    /\ pc = "xhr"
    /\ ticks = 3
    /\ Len(progressTimes) = 2
    /\ ~lengthComputable
    /\ now - progressTimes[2] > 1000

\* a log frame of level Trace, Debug, Info or Warn
IsQuietLog(f) == IsLog(f) /\ JsonParse(f).level # "Error"

\* C20: decoding a log frame of level Trace, Debug, Info or Warn leaves the
\* latched response as it was; hence when an Error log was decoded, only such
\* frames after it, and the agent exits with code 0, sendRequest fails with the
\* Error log's message.
C20_QuietLogsKeepLatch ==
    /\ [][(Len(parsed') = Len(parsed) + 1 /\ IsQuietLog(parsed'[Len(parsed')]))
             => response' = response]_vars
    /\ [](\A i \in 1..Len(parsed) :
             (/\ pc = "done" /\ exitCode = 0
              /\ IsLog(parsed[i]) /\ JsonParse(parsed[i]).level = "Error"
              /\ \A j \in (i + 1)..Len(parsed) : IsQuietLog(parsed[j]))
             => result = Throw(<<BackTick, JsonParse(parsed[i]).body, BackTick>>))

\* an Error log, then a Warn and a Trace log, then exit code 0
C20_Witness ==
    /\ pc = "done" /\ exitCode = 0
    /\ parsed = <<Encode(LogMsg("Error", "1")), Encode(LogMsg("Warn", "2")),
                  Encode(LogMsg("Trace", "2"))>>
    /\ result = Throw(<<BackTick, "1", BackTick>>)

----------------------------------------------------------------------------
(* Claims about the observer *)

\* C18: observer independence: whatever step a call takes with one value of
\* the eventSink argument, the same call with the other value, given the same
\* agent output, exit code and interleaving, has a step that leaves it in the
\* same state but for the observer and its notifications: the same remote
\* commands issued in the same order, the same console lines, the same result
C18_ObserverIndependence ==
    (phase = "follow" /\ Protocol(Snapshot) = Protocol(before))
        => ENABLED TwinFollow

\* both runs of a call have ended on the same latched error log, of which only
\* one observer was told
C18_Witness ==
    /\ phase = "lead"
    /\ Snapshot = before
    /\ pc = "done"
    /\ response.type = "LogMsg"
    /\ result.kind = "throw"
    /\ sinkCalls # otherCalls

----------------------------------------------------------------------------
(* Claims about the sync handle of overwriteAgent *)

\* overwriteAgent holds its sync handle: adb.sync() has resolved (line 53)
HandleObtained == \E i \in 1..Len(issued) : issued[i] = "rm"

\* C21: the sync handle overwriteAgent obtained is disposed exactly once on
\* every exit path: the handle is open for as long as overwriteAgent runs, it
\* is disposed when the call has ended, every step that disposes it finds it
\* open and ends the call, and a disposed handle stays disposed; and no
\* write through the handle is started unless the handle is open and stays so
C21_HandleDisposedOnceNoWriteAfter ==
    /\ [](pc \in {"rm", "xhr", "race", "chmod"} => sync = "open")
    /\ []((pc = "done" /\ HandleObtained) => sync = "disposed")
    /\ [][sync' # sync =>
            \/ sync = "none" /\ sync' = "open"
            \/ sync = "open" /\ sync' = "disposed" /\ pc' = "done"]_vars
    /\ [][(upload' = "inflight" /\ upload # "inflight") =>
            (sync = "open" /\ sync' = "open")]_vars

\* the upload timed out: overwriteAgent has ended with the handle disposed
\* while the write started through it is still in flight
C21_Witness ==
    /\ pc = "done"
    /\ result = Throw(UploadTimeoutError)
    /\ sync = "disposed"
    /\ timer = "fired"
    /\ upload = "inflight"

====
